---- MODULE Spec2Model ----
(***************************************************************************)
(* Model of tox_poetry_installer/utilities.py: the transient-dependency    *)
(* walk identify_transients (with its nested find_deps_of_deps) and the    *)
(* three builders find_project_dependencies, find_dev_dependencies and     *)
(* find_env_dependencies.                                                  *)
(*                                                                         *)
(* A package name is a sequence of one-character strings, so that          *)
(* str.lower() and the version-delimiter test are computed character by    *)
(* character.  A package record is                                         *)
(*   [name, python_constraint, platform, requires]                         *)
(* where python_constraint is the set of interpreter versions the record   *)
(* allows and requires is the sequence of the names of its requirements    *)
(* (dep.name of each entry of package.requires).                           *)
(***************************************************************************)
EXTENDS Integers, Sequences, FiniteSets, TLC

\* ------------------------------------------------------------------ bounds
\* Longest requires list of the record "a" in the stores of Init.
MaxRequires == 2
\* Longest list of root names handed to a builder.
MaxRoots == 2
\* Deepest nesting of find_deps_of_deps the model follows.
RecursionLimit == 8

\* ------------------------------------------------------------------- names
a == <<"a">>
b == <<"b">>
c == <<"c">>
upperA == <<"A">>
pip == <<"p", "i", "p">>
proj == <<"p", "r", "o", "j">>
bGt1 == <<"b", ">", "1">>

None == "None"

\* _poetry.Provider.UNSAFE_PACKAGES, consulted at lines 76 and 122.
UNSAFE_PACKAGES ==
    { <<"s","e","t","u","p","t","o","o","l","s">>,
      <<"d","i","s","t","r","i","b","u","t","e">>,
      <<"p","i","p">>,
      <<"w","h","e","e","l">> }

\* constants.PEP508_VERSION_DELIMITERS, consulted at line 130.
PEP508_VERSION_DELIMITERS == {"=", "<", ">", "^", "~", "@"}

\* constants.PLATFORM_VERSION, consulted at line 95.
PLATFORM_VERSION == "3.8"

\* sys.platform, consulted at line 99.
sys_platform == "linux"

\* str.lower() on one character.
LowerChar(ch) ==
    CASE ch = "A" -> "a" [] ch = "B" -> "b" [] ch = "C" -> "c" [] ch = "D" -> "d"
      [] ch = "E" -> "e" [] ch = "F" -> "f" [] ch = "G" -> "g" [] ch = "H" -> "h"
      [] ch = "I" -> "i" [] ch = "J" -> "j" [] ch = "K" -> "k" [] ch = "L" -> "l"
      [] ch = "M" -> "m" [] ch = "N" -> "n" [] ch = "O" -> "o" [] ch = "P" -> "p"
      [] ch = "Q" -> "q" [] ch = "R" -> "r" [] ch = "S" -> "s" [] ch = "T" -> "t"
      [] ch = "U" -> "u" [] ch = "V" -> "v" [] ch = "W" -> "w" [] ch = "X" -> "x"
      [] ch = "Y" -> "y" [] ch = "Z" -> "z"
      [] OTHER -> ch

\* str.lower() as the builders apply it to a root name (lines 213, 255).
Lower(name) == [i \in 1..Len(name) |-> LowerChar(name[i])]

\* any(delimiter in dependency_name for delimiter in PEP508_VERSION_DELIMITERS)
HasVersionDelimiter(name) ==
    \E i \in 1..Len(name) : name[i] \in PEP508_VERSION_DELIMITERS

\* package.python_constraint.allows(constants.PLATFORM_VERSION)
Allows(package, version) == version \in package.python_constraint

\* Mutant: the platform test of line 99 is left out.
Incompatible_platform_ignored(package) == ~Allows(package, PLATFORM_VERSION)

\* The test of lines 95-102: the record is skipped, neither walked nor emitted.
Incompatible(package) ==
    \/ ~Allows(package, PLATFORM_VERSION)
    \/ (package.platform # None /\ package.platform # sys_platform)

KeyError(name) == [type |-> "KeyError", arg |-> name]
LockedDepVersionConflictError(name) ==
    [type |-> "LockedDepVersionConflictError", arg |-> name]
LockedDepNotFoundError(name) == [type |-> "LockedDepNotFoundError", arg |-> name]
ExtraNotFoundError(extra) == [type |-> "ExtraNotFoundError", arg |-> extra]

Returned(value) == [kind |-> "return", value |-> value]
Raised(exception) == [kind |-> "raise", value |-> exception]
Pending == [kind |-> "pending", value |-> <<>>]


\* ------------------------------------------------- identify_transients
\* Mutant: the version-delimiter test of lines 128-134 is left out.
HandledKeyError_delimiter_ignored(name) ==
    IF name \in UNSAFE_PACKAGES
    THEN Returned(<<>>)
    ELSE Raised(LockedDepNotFoundError(name))

\* What lines 121-138 make of a KeyError that left the try block.
HandledKeyError(name) ==
    IF name \in UNSAFE_PACKAGES
    THEN Returned(<<>>)
    ELSE IF HasVersionDelimiter(name)
    THEN Raised(LockedDepVersionConflictError(name))
    ELSE Raised(LockedDepNotFoundError(name))

\* The walk as a function of its arguments.  The state threaded through the
\* recursion is [searched, transients, error]: the two closure variables of
\* lines 69-71 and the KeyError in flight, if any (a sequence of length 0 or 1).
RECURSIVE find_deps_of_deps(_, _, _, _)
RECURSIVE walk_requires(_, _, _, _, _)

\* for index, dep in enumerate(package.requires): ... (lines 104-113)
walk_requires(packages_, allow_missing_, package, index, st) ==
    IF st.error # <<>> \/ index > Len(package.requires)
    THEN st
    ELSE LET dep == package.requires[index]
             st1 == IF dep \notin st.searched
                    THEN find_deps_of_deps(packages_, allow_missing_, dep, st)
                    ELSE st
         IN  walk_requires(packages_, allow_missing_, package, index + 1, st1)

\* def find_deps_of_deps(name) (lines 73-117)
find_deps_of_deps(packages_, allow_missing_, name, st) ==
    LET st1 == [st EXCEPT !.searched = @ \cup {name}]
    IN  IF name \in UNSAFE_PACKAGES
        THEN st1
        ELSE IF name \notin DOMAIN packages_
        THEN IF name \in allow_missing_
             THEN st1
             ELSE [st1 EXCEPT !.error = <<KeyError(name)>>]
        ELSE IF Incompatible(packages_[name])
        THEN st1
        ELSE LET st2 == walk_requires(packages_, allow_missing_, packages_[name], 1, st1)
             IN  IF st2.error # <<>>
                 THEN st2
                 ELSE [st2 EXCEPT !.transients = Append(@, packages_[name])]

\* def identify_transients(packages, dependency_name, allow_missing) (lines 51-140)
identify_transients(packages_, dependency_name_, allow_missing_) ==
    LET st0 == [searched |-> {}, transients |-> <<>>, error |-> <<>>]
        st  == IF dependency_name_ \in DOMAIN packages_
               THEN find_deps_of_deps(packages_, allow_missing_,
                                      packages_[dependency_name_].name, st0)
               ELSE [st0 EXCEPT !.error = <<KeyError(dependency_name_)>>]
    IN  IF st.error = <<>>
        THEN Returned(st.transients)
        ELSE HandledKeyError(dependency_name_)

\* --------------------------------------------------------------- stores
Range(s) == {s[i] : i \in 1..Len(s)}

\* Sequences over S of length at most n in which no element repeats.
SeqsUpTo(S, n) ==
    UNION {{s \in [1..k -> S] : \A i, j \in 1..k : s[i] = s[j] => i = j} : k \in 0..n}

\* Sequences over S of length at most n.
ListsUpTo(S, n) == UNION {[1..k -> S] : k \in 0..n}

Package(name, python_constraint, platform, requires) ==
    [name |-> name, python_constraint |-> python_constraint,
     platform |-> platform, requires |-> requires]

\* The store as the lockfile loader builds it: keyed by each record's name.
PackageMap(records) ==
    [n \in {r.name : r \in records} |-> CHOOSE r \in records : r.name = n]

AnyPython == {"3.7", "3.8", "3.9"}
OnlyPython39 == {"3.9"}

\* Names a requires list of the stores may mention.
Targets == {a, b, c, pip, proj}

\* (python_constraint, platform) of the record "b": every branch of lines 95-102.
Markers == {<<AnyPython, None>>, <<AnyPython, "linux">>,
            <<AnyPython, "win32">>, <<OnlyPython39, None>>}

\* Records named n with each of the given markers and requires lists.
Records(n, markers, requires_lists) ==
    {Package(n, m[1], m[2], r) : m \in markers, r \in requires_lists}

\* One store per choice of a record "a", a record "b", and of "c" and "pip"
\* being absent (<<>>) or present (<<record>>).
StoresOf(RA, RB, OC, OP) ==
    {PackageMap({ra, rb} \cup Range(oc) \cup Range(op)) :
        ra \in RA, rb \in RB, oc \in OC, op \in OP}

Plain == {<<AnyPython, None>>}

\* Stores of the direct calls: "a" with up to MaxRequires requirements, "b" with
\* at most one and any markers, "c" absent or present, "pip" absent or present.
Stores ==
    StoresOf(Records(a, Plain, SeqsUpTo(Targets, MaxRequires)),
             Records(b, Markers, {<<>>, <<a>>, <<c>>, <<pip>>, <<proj>>}),
             {<<>>, <<Package(c, AnyPython, None, <<>>)>>,
              <<Package(c, AnyPython, None, <<a>>)>>},
             {<<>>, <<Package(pip, AnyPython, None, <<c>>)>>})

\* Stores of the builder calls.
BuilderStores ==
    StoresOf(Records(a, Plain, {<<>>, <<b>>, <<c>>, <<pip>>, <<proj>>}),
             Records(b, {<<AnyPython, None>>, <<OnlyPython39, None>>},
                     {<<>>, <<c>>, <<proj>>}),
             {<<>>, <<Package(c, AnyPython, None, <<>>)>>,
              <<Package(c, AnyPython, None, <<a>>)>>},
             {<<>>, <<Package(pip, AnyPython, None, <<c>>)>>})

\* ---------------------------------------------------------------- state
VARIABLES
    packages,         \* the store: package name -> package record
    pc,               \* where control is
    fn,               \* the function the caller invoked
    args,             \* that invocation's arguments other than the store
    root_names,       \* builder: the names it resolves, in order
    root_idx,         \* builder: index of the next name to resolve
    dependencies,     \* builder: the list it accumulates
    dependency_name,  \* identify_transients: its dependency_name argument
    allow_missing,    \* identify_transients: its allow_missing argument (only
                      \* tested with "in", so kept as the set of its elements)
    transients,       \* identify_transients: the list of line 69
    searched,         \* identify_transients: the set of line 71
    stack,            \* active find_deps_of_deps frames in their for loop
    callee,           \* argument of the find_deps_of_deps call being entered
    error,            \* the KeyError raised in this identify_transients call
    entered,          \* names find_deps_of_deps was entered with in this call
    outcome           \* what the invoked function returned or raised

vars == <<packages, pc, fn, args, root_names, root_idx, dependencies,
          dependency_name, allow_missing, transients, searched, stack,
          callee, error, entered, outcome>>

builder_vars == <<root_names, root_idx, dependencies>>
call_vars == <<fn, args, dependency_name, allow_missing>>

\* poetry.package.name, the only name the builders allow to be missing.
project_name == proj

\* State before any function of the module is invoked on the store.
Idle ==
    /\ pc = "idle"
    /\ fn = "" /\ args = <<>>
    /\ root_names = <<>> /\ root_idx = 1 /\ dependencies = <<>>
    /\ dependency_name = <<>> /\ allow_missing = {}
    /\ transients = <<>> /\ searched = {} /\ stack = <<>>
    /\ callee = <<>> /\ error = <<>> /\ entered = <<>>
    /\ outcome = Pending

Init == packages \in Stores /\ Idle

\* Names a caller passes to identify_transients directly.
DirectNames == {a, b, c, pip, bGt1}

\* Mutant: searched outlives the call instead of starting empty.
BeginTransients_searched_kept(name, allowed) ==
    /\ dependency_name' = name
    /\ allow_missing' = allowed
    /\ transients' = <<>>
    /\ searched' = searched
    /\ stack' = <<>>
    /\ callee' = <<>>
    /\ error' = <<>>
    /\ entered' = <<>>
    /\ pc' = "call"

\* Entry of identify_transients (lines 69-71): fresh transients and searched.
BeginTransients(name, allowed) ==
    /\ dependency_name' = name
    /\ allow_missing' = allowed
    /\ transients' = <<>>
    /\ searched' = {}
    /\ stack' = <<>>
    /\ callee' = <<>>
    /\ error' = <<>>
    /\ entered' = <<>>
    /\ pc' = "call"

\* A caller invokes identify_transients(packages, name, allowed).
CallIdentifyTransients ==
    /\ pc = "idle"
    /\ \E name \in DirectNames, allowed \in {{}, {project_name}} :
          /\ BeginTransients(name, allowed)
          /\ fn' = "identify_transients"
          /\ args' = <<name, allowed>>
    /\ UNCHANGED <<packages, builder_vars, outcome>>

\* Line 120: packages[dependency_name], then the first find_deps_of_deps call.
LookupRoot ==
    /\ pc = "call"
    /\ IF dependency_name \in DOMAIN packages
       THEN /\ callee' = packages[dependency_name].name
            /\ pc' = "enter"
            /\ error' = error
       ELSE /\ error' = <<KeyError(dependency_name)>>
            /\ pc' = "except"
            /\ callee' = callee
    /\ UNCHANGED <<packages, call_vars, builder_vars, transients, searched,
                   stack, entered, outcome>>

\* Where control goes when a find_deps_of_deps frame returns to frames `rest`.
AfterReturn(rest) == IF rest = <<>> THEN "return" ELSE "loop"

\* Mutant: line 74 is left out, the name is never marked.
MarkSearched_dropped(name) == searched

\* Line 74: searched.add(name).
MarkSearched(name) == searched \cup {name}

\* Mutant: the allow_missing test of line 88 is left out.
AllowedMissing_never(name) == FALSE

\* Line 88: name in allow_missing.
AllowedMissing(name) == name \in allow_missing

\* Lines 73-103: entry of find_deps_of_deps(callee) up to its for loop.
EnterFindDeps ==
    /\ pc = "enter"
    /\ Len(stack) < RecursionLimit
    /\ searched' = MarkSearched(callee)
    /\ entered' = Append(entered, callee)
    /\ callee' = <<>>
    /\ IF callee \in UNSAFE_PACKAGES
       THEN pc' = AfterReturn(stack) /\ UNCHANGED <<stack, error>>
       ELSE IF callee \notin DOMAIN packages
       THEN IF AllowedMissing(callee)
            THEN pc' = AfterReturn(stack) /\ UNCHANGED <<stack, error>>
            ELSE /\ error' = <<KeyError(callee)>>
                 /\ stack' = <<>>
                 /\ pc' = "except"
       ELSE IF Incompatible(packages[callee])
       THEN pc' = AfterReturn(stack) /\ UNCHANGED <<stack, error>>
       ELSE /\ stack' = Append(stack, [name |-> callee, index |-> 1])
            /\ pc' = "loop"
            /\ error' = error
    /\ UNCHANGED <<packages, call_vars, builder_vars, transients, outcome>>

Top == stack[Len(stack)]
Pop == SubSeq(stack, 1, Len(stack) - 1)

\* Mutant: the test of line 108 is left out, every requirement is entered.
NextRequirement_always_entered ==
    /\ pc = "loop"
    /\ Top.index <= Len(packages[Top.name].requires)
    /\ stack' = [stack EXCEPT ![Len(stack)].index = @ + 1]
    /\ callee' = packages[Top.name].requires[Top.index]
    /\ pc' = "enter"
    /\ UNCHANGED <<packages, call_vars, builder_vars, transients, searched,
                   error, entered, outcome>>

\* Lines 104-113: one iteration of the for loop of the innermost frame.
NextRequirement ==
    /\ pc = "loop"
    /\ Top.index <= Len(packages[Top.name].requires)
    /\ LET dep == packages[Top.name].requires[Top.index]
       IN  /\ stack' = [stack EXCEPT ![Len(stack)].index = @ + 1]
           /\ IF dep \notin searched
              THEN callee' = dep /\ pc' = "enter"
              ELSE callee' = callee /\ pc' = "loop"
    /\ UNCHANGED <<packages, call_vars, builder_vars, transients, searched,
                   error, entered, outcome>>

\* Mutant: the package is emitted ahead of what was emitted before it.
IncludePackage_prepended ==
    /\ pc = "loop"
    /\ Top.index > Len(packages[Top.name].requires)
    /\ transients' = <<packages[Top.name]>> \o transients
    /\ stack' = Pop
    /\ pc' = AfterReturn(Pop)
    /\ UNCHANGED <<packages, call_vars, builder_vars, searched, callee,
                   error, entered, outcome>>

\* Lines 114-117: the loop is over, the frame's package is appended.
IncludePackage ==
    /\ pc = "loop"
    /\ Top.index > Len(packages[Top.name].requires)
    /\ transients' = Append(transients, packages[Top.name])
    /\ stack' = Pop
    /\ pc' = AfterReturn(Pop)
    /\ UNCHANGED <<packages, call_vars, builder_vars, searched, callee,
                   error, entered, outcome>>

\* identify_transients hands `result` to whoever called it: the outside
\* caller, or the builder's loop (dependencies += ..., lines 212, 234, 254).
Deliver(result) ==
    IF fn = "identify_transients"
    THEN /\ outcome' = result
         /\ pc' = "done"
         /\ dependencies' = dependencies
    ELSE IF result.kind = "raise"
    THEN /\ outcome' = result
         /\ pc' = "done"
         /\ dependencies' = dependencies
    ELSE /\ dependencies' = dependencies \o result.value
         /\ pc' = "builder"
         /\ outcome' = outcome

\* Line 140: return transients.
ReturnTransients ==
    /\ pc = "return"
    /\ Deliver(Returned(transients))
    /\ UNCHANGED <<packages, call_vars, root_names, root_idx, transients,
                   searched, stack, callee, error, entered>>

\* Lines 121-138: except KeyError.
ExceptKeyError ==
    /\ pc = "except"
    /\ Deliver(HandledKeyError(dependency_name))
    /\ UNCHANGED <<packages, call_vars, root_names, root_idx, transients,
                   searched, stack, callee, error, entered>>

Walk ==
    \/ LookupRoot
    \/ EnterFindDeps
    \/ NextRequirement
    \/ IncludePackage
    \/ ReturnTransients
    \/ ExceptKeyError

Next == CallIdentifyTransients \/ Walk

Spec == Init /\ [][Next]_vars

\* The interpreter runs a started call to its end.
FairSpec == Spec /\ WF_vars(Next)



\* -------------------------------------------------------------- builders
InitBuilders == packages \in BuilderStores /\ Idle

\* poetry.package.requires: dependencies with a name and is_optional().
ProjectRequirements ==
    {[name |-> a, optional |-> FALSE], [name |-> b, optional |-> TRUE],
     [name |-> c, optional |-> FALSE]}

\* poetry.package.extras: extra name -> names of the requirements it adds.
ProjectExtras ==
    {[x \in {"x"} |-> r] : r \in {<<b>>, <<c>>, <<proj>>, <<proj, b>>}}

\* Extra names a tox environment may activate; "y" is declared by no project.
EnvExtras == {"x", "y"}

\* Names a tox environment may list in locked_deps.
EnvNames == {a, b, upperA, pip, bGt1}

\* Keys the project may list under dev-dependencies.
DevNames == {a, b, c, upperA}

\* Index of the first element of names that has no record in the store, or 0.
FirstMissing(packages_, names) ==
    IF \A i \in 1..Len(names) : names[i] \in DOMAIN packages_
    THEN 0
    ELSE CHOOSE i \in 1..Len(names) :
            /\ names[i] \notin DOMAIN packages_
            /\ \A j \in 1..(i - 1) : names[j] \in DOMAIN packages_

RECURSIVE extra_dependencies(_, _, _, _, _)
\* Lines 196-208: the loop over venv.envconfig.extras from index i on, the
\* names collected so far in acc.  Both packages[item.name] and
\* poetry.package.extras[extra] sit inside the try block.
extra_dependencies(packages_, extras, env_extras, i, acc) ==
    IF i > Len(env_extras)
    THEN Returned(acc)
    ELSE IF env_extras[i] \notin DOMAIN extras
    THEN Raised(ExtraNotFoundError(env_extras[i]))
    ELSE IF FirstMissing(packages_, extras[env_extras[i]]) # 0
    THEN Raised(ExtraNotFoundError(env_extras[i]))
    ELSE extra_dependencies(packages_, extras, env_extras, i + 1,
                            acc \o extras[env_extras[i]])

NotOptional(item) == ~item.optional

\* Lines 190-213: the names find_project_dependencies resolves, or what it
\* raises before resolving any.
project_roots(packages_, requires, extras, env_extras) ==
    LET chosen == SelectSeq(requires, NotOptional)
        base   == [i \in 1..Len(chosen) |-> chosen[i].name]
    IN  IF FirstMissing(packages_, base) # 0
        THEN Raised(KeyError(base[FirstMissing(packages_, base)]))
        ELSE LET extra == extra_dependencies(packages_, extras, env_extras, 1, <<>>)
             IN  IF extra.kind = "raise"
                 THEN extra
                 ELSE Returned([i \in 1..Len(base \o extra.value) |->
                                  Lower(packages_[(base \o extra.value)[i]].name)])

RECURSIVE resolve_roots(_, _, _, _)
\* The builders' loop, dependencies += identify_transients(packages, name,
\* allow_missing=[poetry.package.name]), from names[i] on (lines 211-214,
\* 231-236, 253-256).
resolve_roots(packages_, names, i, dependencies_) ==
    IF i > Len(names)
    THEN Returned(dependencies_)
    ELSE LET found == identify_transients(packages_, names[i], {project_name})
         IN  IF found.kind = "raise"
             THEN found
             ELSE resolve_roots(packages_, names, i + 1, dependencies_ \o found.value)

\* def find_project_dependencies(venv, poetry, packages) (lines 178-216), with
\* requires = poetry.package.requires, extras = poetry.package.extras and
\* env_extras = venv.envconfig.extras.
find_project_dependencies(packages_, requires, extras, env_extras) ==
    LET roots == project_roots(packages_, requires, extras, env_extras)
    IN  IF roots.kind = "raise"
        THEN roots
        ELSE resolve_roots(packages_, roots.value, 1, <<>>)

\* def find_dev_dependencies(poetry, packages) (lines 219-238), with
\* dev_dependencies the keys of the project's dev-dependencies table.
find_dev_dependencies(packages_, dev_dependencies) ==
    resolve_roots(packages_, dev_dependencies, 1, <<>>)

\* def find_env_dependencies(venv, poetry, packages) (lines 241-258), with
\* locked_deps = venv.envconfig.locked_deps.
find_env_dependencies(packages_, locked_deps) ==
    resolve_roots(packages_, [i \in 1..Len(locked_deps) |-> Lower(locked_deps[i])],
                  1, <<>>)

\* A builder starts with its list of names, or fails before resolving any.
StartBuilder(name, arguments, roots) ==
    /\ fn' = name
    /\ args' = arguments
    /\ IF roots.kind = "raise"
       THEN /\ outcome' = roots
            /\ pc' = "done"
            /\ root_names' = root_names
       ELSE /\ root_names' = roots.value
            /\ pc' = "builder"
            /\ outcome' = outcome
    /\ UNCHANGED <<packages, root_idx, dependencies, dependency_name,
                   allow_missing, transients, searched, stack, callee,
                   error, entered>>

\* find_project_dependencies(venv, poetry, packages), lines 190-210.
FindProjectDependencies ==
    /\ pc = "idle"
    /\ \E requires \in SeqsUpTo(ProjectRequirements, MaxRoots),
          extras \in ProjectExtras,
          env_extras \in ListsUpTo(EnvExtras, MaxRoots) :
          StartBuilder("find_project_dependencies",
                       [requires |-> requires, extras |-> extras,
                        env_extras |-> env_extras],
                       project_roots(packages, requires, extras, env_extras))

\* find_dev_dependencies(poetry, packages), lines 230-233.
FindDevDependencies ==
    /\ pc = "idle"
    /\ \E dev_dependencies \in SeqsUpTo(DevNames, MaxRoots) :
          StartBuilder("find_dev_dependencies",
                       [dev_dependencies |-> dev_dependencies],
                       Returned(dev_dependencies))

\* find_env_dependencies(venv, poetry, packages), lines 252-255.
FindEnvDependencies ==
    /\ pc = "idle"
    /\ \E locked_deps \in ListsUpTo(EnvNames, MaxRoots) :
          StartBuilder("find_env_dependencies",
                       [locked_deps |-> locked_deps],
                       Returned([i \in 1..Len(locked_deps) |-> Lower(locked_deps[i])]))

\* The builder's for loop calls identify_transients on its next name with
\* allow_missing=[poetry.package.name] (lines 211-214, 231-236, 253-256).
ResolveNextRoot ==
    /\ pc = "builder"
    /\ root_idx <= Len(root_names)
    /\ BeginTransients(root_names[root_idx], {project_name})
    /\ root_idx' = root_idx + 1
    /\ UNCHANGED <<packages, fn, args, root_names, dependencies, outcome>>

\* return dependencies (lines 216, 238, 258).
ReturnDependencies ==
    /\ pc = "builder"
    /\ root_idx > Len(root_names)
    /\ outcome' = Returned(dependencies)
    /\ pc' = "done"
    /\ UNCHANGED <<packages, call_vars, builder_vars, transients, searched,
                   stack, callee, error, entered>>

NextBuilders ==
    \/ FindProjectDependencies
    \/ FindDevDependencies
    \/ FindEnvDependencies
    \/ ResolveNextRoot
    \/ ReturnDependencies
    \/ Walk

SpecBuilders == InitBuilders /\ [][NextBuilders]_vars

\* ------------------------------------------------- vocabulary of the claims
Present(n) == n \in DOMAIN packages

\* A name the walk passes over: unsafe, or a record that excludes the running
\* interpreter or names another platform.
Skipped(n) ==
    \/ n \in UNSAFE_PACKAGES
    \/ /\ Present(n)
       /\ \/ PLATFORM_VERSION \notin packages[n].python_constraint
          \/ packages[n].platform \notin {None, sys_platform}

\* A name whose record is emitted and whose requirements are followed.
Walked(n) == Present(n) /\ ~Skipped(n)

Requirements(n) == IF Present(n) THEN Range(packages[n].requires) ELSE {}

RECURSIVE Closure(_, _)
\* Least set containing S and closed under Edges (Edges is a function on names).
Closure(S, Edges) ==
    LET more == S \cup UNION {Edges[n] : n \in S}
    IN  IF more = S THEN S ELSE Closure(more, Edges)

AllNames == DOMAIN packages \cup Targets \cup DirectNames \cup {upperA}

\* Names reachable from root along requires edges of any present record.
Reachable(root) == Closure({root}, [n \in AllNames |-> Requirements(n)])

\* Names reachable from root along requires edges of walked records only.
ReachableUnskipped(root) ==
    Closure({root}, [n \in AllNames |-> IF Walked(n) THEN Requirements(n) ELSE {}])

\* n lies on a cycle of requires edges.
OnCycle(n) == \E m \in Requirements(n) : n \in Reachable(m)

NamesOf(list) == {list[i].name : i \in 1..Len(list)}

NoRepeat(list) == \A i, j \in 1..Len(list) : list[i] = list[j] => i = j

\* An outside call of identify_transients has come back.
DirectDone == pc = "done" /\ fn = "identify_transients"

\* C1's precondition: root present, and everything reachable from it is
\* present, safe, compatible and free of cycles.
CleanFrom(root) ==
    /\ Present(root)
    /\ \A n \in Reachable(root) : Walked(n) /\ ~OnCycle(n)

\* C1: on a clean acyclic part of the store, identify_transients(S, N, {})
\* returns exactly the records of N and of every name reachable from N, each
\* once, every requirement before each record that requires it.
C1_PostOrderClosure ==
    (DirectDone /\ allow_missing = {} /\ CleanFrom(dependency_name)) =>
        /\ outcome.kind = "return"
        /\ NamesOf(outcome.value) = Reachable(dependency_name)
        /\ Len(outcome.value) = Cardinality(Reachable(dependency_name))
        /\ \A i \in 1..Len(outcome.value) :
              /\ outcome.value[i] = packages[outcome.value[i].name]
              /\ \A j \in 1..Len(outcome.value) :
                    outcome.value[j].name \in Range(outcome.value[i].requires) => j < i

\* A diamond: a requires b and c, b requires c; the result is [c, b, a].
C1_Witness ==
    /\ DirectDone /\ allow_missing = {} /\ CleanFrom(dependency_name)
    /\ dependency_name = a
    /\ packages[a].requires = <<b, c>>
    /\ packages[b].requires = <<c>>
    /\ outcome = Returned(<<packages[c], packages[b], packages[a]>>)

Safe_EnteredOnce == NoRepeat(entered)

\* The root has a record, and every name the walk can reach from it through
\* walked records has a record, is unsafe or may be missing.
NothingMissing(root) ==
    /\ Present(root)
    /\ \A n \in ReachableUnskipped(root) :
          Present(n) \/ n \in UNSAFE_PACKAGES \/ n \in allow_missing

\* a requires b, b requires a, both walked.
TwoCycle ==
    /\ packages[a].requires = <<b>>
    /\ packages[b].requires = <<a>>
    /\ Walked(b)

C2_Safety ==
    /\ Safe_EnteredOnce
    /\ NoRepeat(transients)
    /\ (DirectDone /\ NothingMissing(dependency_name)) => outcome.kind = "return"
    /\ (DirectDone /\ TwoCycle /\ dependency_name = a) =>
           outcome = Returned(<<packages[b], packages[a]>>)

\* C2: every call of identify_transients terminates, also on cyclic stores;
\* find_deps_of_deps is entered with each name at most once, no record is
\* emitted twice, and a cycle alone does not make the call raise.
C2_TerminatesOncePerName == []C2_Safety /\ <>(pc = "done")

C2_Witness ==
    /\ DirectDone /\ TwoCycle /\ dependency_name = a
    /\ Len(entered) = 2
    /\ outcome = Returned(<<packages[b], packages[a]>>)

\* C3: with the root name absent from the store the outcome is: the empty
\* list if the name is unsafe, else LockedDepVersionConflictError if the name
\* holds a version delimiter, else LockedDepNotFoundError.
C3_AbsentRoot ==
    (DirectDone /\ ~Present(dependency_name)) =>
        outcome =
            IF dependency_name \in UNSAFE_PACKAGES
            THEN [kind |-> "return", value |-> <<>>]
            ELSE IF \E i \in 1..Len(dependency_name) :
                       dependency_name[i] \in {"=", "<", ">", "^", "~", "@"}
            THEN [kind |-> "raise",
                  value |-> [type |-> "LockedDepVersionConflictError",
                             arg |-> dependency_name]]
            ELSE [kind |-> "raise",
                  value |-> [type |-> "LockedDepNotFoundError",
                             arg |-> dependency_name]]

C3_Witness ==
    /\ DirectDone /\ ~Present(dependency_name)
    /\ dependency_name = bGt1
    /\ outcome.kind = "raise"
    /\ outcome.value.type = "LockedDepVersionConflictError"

\* The lookup of line 86 failed during the traversal and was not allowed.
TraversalLookupFailed == error # <<>> /\ entered # <<>>

\* C4 (as claimed): a KeyError raised by the lookup of a requirement reaches
\* the caller of identify_transients as it was raised.
C4_LookupErrorUnchanged ==
    (DirectDone /\ TraversalLookupFailed) => outcome = Raised(error[1])

\* The walked record n requires a name that has no record and that
\* allow_missing covers.
HasAllowedMissingEdge(n) ==
    /\ Walked(n)
    /\ \E k \in Requirements(n) :
          ~Present(k) /\ k \in allow_missing /\ k \notin UNSAFE_PACKAGES

\* C5: an absent requirement named in allow_missing costs only its edge: the
\* call does not fail for it, the record that requires it is emitted, and so
\* are that record's other walked requirements.
C5_AllowMissingSkipsEdge ==
    (DirectDone /\ NothingMissing(dependency_name)) =>
        /\ outcome.kind = "return"
        /\ \A n \in ReachableUnskipped(dependency_name) :
              HasAllowedMissingEdge(n) =>
                  /\ n \in NamesOf(outcome.value)
                  /\ \A k \in Requirements(n) :
                        Walked(k) => k \in NamesOf(outcome.value)

\* a requires the project itself and then b: b and a are still emitted.
C5_Witness ==
    /\ DirectDone /\ HasAllowedMissingEdge(a)
    /\ dependency_name = a
    /\ packages[a].requires = <<proj, b>>
    /\ outcome = Returned(<<packages[b], packages[a]>>)

\* C6: unsafe and incompatible names are passed over without failing the
\* call; the result holds exactly the walked names reachable from the root
\* through walked records, and is empty when the root itself is passed over.
C6_SkippedPruned ==
    /\ (DirectDone /\ outcome.kind = "return") =>
          /\ NamesOf(outcome.value) =
                {n \in ReachableUnskipped(dependency_name) : Walked(n)}
          /\ \A n \in NamesOf(outcome.value) : ~Skipped(n)
    /\ (DirectDone /\ Skipped(dependency_name)) => outcome = Returned(<<>>)
    /\ (DirectDone /\ Present(dependency_name)
          /\ \A n \in ReachableUnskipped(dependency_name) :
                Present(n) \/ n \in UNSAFE_PACKAGES)
         => outcome.kind = "return"

\* a requires the skipped b and c; b requires c: c comes in through a alone.
C6_Witness ==
    /\ DirectDone /\ Present(c)
    /\ dependency_name = a
    /\ packages[a].requires = <<b, c>>
    /\ packages[b].requires = <<c>>
    /\ Skipped(b)
    /\ outcome = Returned(<<packages[c], packages[a]>>)

\* C7 (as claimed): a normal return for a root present in the store ends with
\* the root's record.
C7_RootLastWhenPresent ==
    (DirectDone /\ outcome.kind = "return" /\ Present(dependency_name)) =>
        /\ Len(outcome.value) > 0
        /\ outcome.value[Len(outcome.value)] = packages[dependency_name]

\* C7 (amended): a normal return for a root that is present and not passed
\* over (not unsafe, compatible) ends with the root's record, which appears
\* once.
C7_RootLastWhenWalked ==
    (DirectDone /\ outcome.kind = "return" /\ Walked(dependency_name)) =>
        /\ Len(outcome.value) > 0
        /\ outcome.value[Len(outcome.value)] = packages[dependency_name]
        /\ \A i \in 1..Len(outcome.value) :
              outcome.value[i].name = dependency_name => i = Len(outcome.value)

C7_Witness ==
    /\ DirectDone /\ outcome.kind = "return" /\ Walked(dependency_name)
    /\ Len(outcome.value) = 3
    /\ outcome.value[3] = packages[dependency_name]


\* ------------------------------------------------- claims on the builders
ProjectDone == pc = "done" /\ fn = "find_project_dependencies"

BuilderDone ==
    /\ pc = "done"
    /\ fn \in {"find_project_dependencies", "find_dev_dependencies",
               "find_env_dependencies"}

RaisedType(t) == outcome.kind = "raise" /\ outcome.value.type = t

\* Some extra active in the environment is not declared by the project.
UndeclaredExtraActive ==
    \E i \in 1..Len(args.env_extras) : args.env_extras[i] \notin DOMAIN args.extras

\* C8 (as claimed): find_project_dependencies raises ExtraNotFoundError
\* exactly when some active extra is not among the declared extras.
C8_ExtraNotFoundIffUndeclared ==
    ProjectDone => (RaisedType("ExtraNotFoundError") <=> UndeclaredExtraActive)

\* Names the project lists as roots: its non-optional requirements and the
\* requirements of its active declared extras.
ListedNames ==
    {args.requires[i].name : i \in {k \in 1..Len(args.requires) : ~args.requires[k].optional}}
    \cup UNION {Range(args.extras[args.env_extras[i]]) :
                  i \in {k \in 1..Len(args.env_extras) :
                           args.env_extras[k] \in DOMAIN args.extras}}

\* Something other than the project's own name can make the call fail: an
\* undeclared extra, or a name other than the project's that is listed or
\* reachable and has no record without being unsafe.
OtherFailureCause ==
    \/ UndeclaredExtraActive
    \/ \E n \in ListedNames \ {project_name} : ~Present(n)
    \/ \E r \in ListedNames \ {project_name} :
          \E n \in ReachableUnskipped(r) \ {project_name} :
              ~Present(n) /\ n \notin UNSAFE_PACKAGES

\* C9 (as claimed): the project's own name having no record never makes
\* find_project_dependencies fail, wherever the project lists itself.
C9_OwnNameTolerated ==
    (ProjectDone /\ outcome.kind = "raise") => OtherFailureCause

RECURSIVE ExtrasListed(_)
\* The requirements of the first k active extras, in order.
ExtrasListed(k) ==
    IF k = 0 THEN <<>>
    ELSE ExtrasListed(k - 1) \o args.extras[args.env_extras[k]]

\* The project's listed names in the order the builder takes them.
ListedInOrder ==
    LET base == SelectSeq(args.requires, NotOptional)
    IN  [i \in 1..Len(base) |-> base[i].name] \o ExtrasListed(Len(args.env_extras))

\* The names each builder is to resolve, read off its arguments.
ExpectedRoots ==
    IF fn = "find_dev_dependencies"
    THEN args.dev_dependencies
    ELSE LET given == IF fn = "find_env_dependencies"
                      THEN args.locked_deps
                      ELSE ListedInOrder
         IN  [i \in 1..Len(given) |->
                [k \in 1..Len(given[i]) |-> LowerChar(given[i][k])]]

RECURSIVE ConcatTransients(_, _)
\* identify_transients over names[i..], each call on its own: the first error
\* if a call raises, else the lists joined in order.
ConcatTransients(names, i) ==
    IF i > Len(names)
    THEN Returned(<<>>)
    ELSE LET first == identify_transients(packages, names[i], {project_name})
             rest  == ConcatTransients(names, i + 1)
         IN  IF first.kind = "raise" THEN first
             ELSE IF rest.kind = "raise" THEN rest
             ELSE Returned(first.value \o rest.value)

\* The builder got as far as resolving its names.
RootsEnumerated ==
    BuilderDone /\ ~RaisedType("KeyError") /\ ~RaisedType("ExtraNotFoundError")

Occurrences(list, x) == Cardinality({i \in 1..Len(list) : list[i] = x})

\* C10: a builder's result is the concatenation, in order, of
\* identify_transients(store, root, {project name}) over its roots, each
\* resolved on its own; nothing is deduplicated: a record occurs once per root
\* whose result holds it.
C10_BuildersConcatenate ==
    RootsEnumerated =>
        /\ root_names = ExpectedRoots
        /\ outcome = ConcatTransients(root_names, 1)
        /\ outcome.kind = "return" =>
              \A n \in DOMAIN packages :
                  Occurrences(outcome.value, packages[n]) =
                      Cardinality({i \in 1..Len(root_names) :
                          n \in NamesOf(identify_transients(
                                   packages, root_names[i], {project_name}).value)})

\* Two roots that share the requirement c: c is installed twice.
C10_Witness ==
    /\ BuilderDone /\ outcome.kind = "return" /\ Present(c)
    /\ Len(root_names) = 2
    /\ Occurrences(outcome.value, packages[c]) = 2
    /\ Len(outcome.value) = 4


\* ---------------------------------------------- the two readings agree
\* What the functions above give for the invocation recorded in fn and args.
FunctionResult ==
    IF fn = "identify_transients"
    THEN identify_transients(packages, args[1], args[2])
    ELSE IF fn = "find_project_dependencies"
    THEN find_project_dependencies(packages, args.requires, args.extras,
                                   args.env_extras)
    ELSE IF fn = "find_dev_dependencies"
    THEN find_dev_dependencies(packages, args.dev_dependencies)
    ELSE find_env_dependencies(packages, args.locked_deps)

\* The step-by-step walk ends with what the functions compute.
StepsAgreeWithFunctions == pc = "done" => outcome = FunctionResult

====
